---- MODULE Spec2Model ----
(***************************************************************************)
(* A model of src/main.go: the Mapbox geocoding call (geocodeAddress), the *)
(* directions call (getDistance) and the console driver (main).            *)
(*                                                                         *)
(* The provider is the environment.  One reply of the provider is one of   *)
(*   [stage |-> "get",  cause |-> c]            http.Get returned an error *)
(*   [stage |-> "read", cause |-> c]            io.ReadAll returned one    *)
(*   [stage |-> "body", valid |-> FALSE]        a body json.Unmarshal      *)
(*                                              rejects                    *)
(*   [stage |-> "body", valid |-> TRUE, ...]    a body that decodes        *)
(* Coordinates are whole degrees.  A *LocationInfo is a record with the    *)
(* field isNil; the nil pointer is Nil.                                    *)
(***************************************************************************)
EXTENDS Integers, Sequences, FiniteSets, TLC

VARIABLES
    geoReply,     \* the provider's reply to the geocoding request under test
    geoPc,        \* "call" before geocodeAddress ran, "returned" after
    geoOut,       \* what geocodeAddress produced for geoReply
    routeStart,   \* getDistance under test: its start argument
    routeEnd,     \* its end argument
    routeReply,   \* the provider's reply to the directions request
    routePc,      \* "call" before getDistance ran, "returned" after
    routeOut,     \* what getDistance produced
    stack,        \* the driver: the activations of main, outermost first
    status        \* the driver: "running", or how the process died

vars == <<geoReply, geoPc, geoOut, routeStart, routeEnd, routeReply, routePc,
          routeOut, stack, status>>

geoVars == <<geoReply, geoPc, geoOut>>
routeVars == <<routeStart, routeEnd, routeReply, routePc, routeOut>>
mainVars == <<stack, status>>

(***************************************************************************)
(* Bounds of the model.                                                    *)
(***************************************************************************)
MaxCenter == 2     \* longest "center" array of a feature
MaxContext == 2    \* longest "context" array of a feature
MaxFeatures == 2   \* longest "features" array of a geocoding reply
MaxRoutes == 2     \* longest "routes" array of a directions reply
MaxDepth == 3      \* activations of main the goroutine stack can hold

\* All sequences over S of length at most n.
SeqUpTo(S, n) == UNION {[1..k -> S] : k \in 0..n}

(***************************************************************************)
(* Errors.  An error value is its message: the text fmt.Errorf formats,    *)
(* followed by the cause for the messages that carry %v.                   *)
(***************************************************************************)
NoErr == [nil |-> TRUE]
Errorf(text, cause) == [nil |-> FALSE, text |-> text, cause |-> cause]
\* An error of the transport or the decoder: its own text, no cause.
Cause(text) == [nil |-> FALSE, text |-> text, cause |-> ""]

ErrRequest == "http request error"      \* "помилка HTTP запиту: %v"
ErrRead == "response read error"        \* "помилка читання відповіді: %v"
ErrJSON == "json parse error"           \* "помилка парсингу JSON: %v"
ErrAddressNotFound == "address not found"   \* "адресу не знайдено"
ErrRouteNotFound == "route not found"       \* "маршрут не знайдено"
NoCause == ""

TransportCauses == {"connection refused", "timeout"}
ReadCauses == {"unexpected EOF"}
SyntaxCause == "invalid character"

(***************************************************************************)
(* The transport and the decoder, as the two functions use them.           *)
(***************************************************************************)
\* http.Get: the error it returns for a reply.
httpGet(reply) == IF reply.stage = "get" THEN Cause(reply.cause) ELSE NoErr

\* io.ReadAll(resp.Body): the error it returns.
ReadAll(reply) == IF reply.stage = "read" THEN Cause(reply.cause) ELSE NoErr

\* json.Unmarshal into a GeocodeResponse: a rejected body leaves the
\* zero value in place.
UnmarshalGeocode(reply) ==
    IF reply.valid
    THEN [err |-> NoErr, Features |-> reply.features]
    ELSE [err |-> Cause(SyntaxCause), Features |-> <<>>]

(***************************************************************************)
(* geocodeAddress                                                          *)
(***************************************************************************)
Nil == [isNil |-> TRUE]
Unknown == "unknown"     \* "Невідомо"

\* strings.HasPrefix
HasPrefix(s, prefix) ==
    Len(s) >= Len(prefix) /\ SubSeq(s, 1, Len(prefix)) = prefix

\* One iteration of the loop over feature.Context.
ApplyContext(location, ctx) ==
    IF HasPrefix(ctx.ID, "country") THEN [location EXCEPT !.Country = ctx.Text]
    ELSE IF HasPrefix(ctx.ID, "region") THEN [location EXCEPT !.Region = ctx.Text]
    ELSE IF HasPrefix(ctx.ID, "place") THEN [location EXCEPT !.City = ctx.Text]
    ELSE location

\* The loop run from the last entry to the first: the first match wins.
RECURSIVE ScanContext_FirstWins(_, _)
ScanContext_FirstWins(location, context) ==
    IF context = <<>> THEN location
    ELSE ApplyContext(ScanContext_FirstWins(location, Tail(context)), Head(context))

\* The loop over feature.Context, first entry first.
RECURSIVE ScanContext(_, _)
ScanContext(location, context) ==
    IF context = <<>> THEN location
    ELSE ScanContext(ApplyContext(location, Head(context)), Tail(context))

\* The LocationInfo literal built from the chosen feature.
NewLocation(feature) ==
    [isNil |-> FALSE,
     Longitude |-> feature.Center[1],
     Latitude |-> feature.Center[2],
     PlaceName |-> feature.PlaceName,
     Country |-> Unknown,
     Region |-> Unknown,
     City |-> Unknown]

\* The last candidate instead of the first.
ChosenFeature_Last(features) == features[Len(features)]

\* The feature the location is built from.
ChosenFeature(features) == features[1]

GeoReturn(location, err) == [outcome |-> "return", location |-> location, err |-> err]
\* A run-time panic inside the call: nothing is returned.
GeoPanic == [outcome |-> "panic", location |-> Nil, err |-> NoErr]

\* The location built from the chosen feature (lines 91-112).
Resolve(features) ==
    LET feature == ChosenFeature(features) IN
    \* feature.Center[0] and feature.Center[1] are indexed unchecked
    IF Len(feature.Center) < 2
    THEN GeoPanic
    ELSE GeoReturn(ScanContext(NewLocation(feature), feature.Context), NoErr)

\* geocodeAddress without the test for an empty list: a location of
\* defaults is returned for it.
geocodeAddress_NoEmptyCheck(reply) ==
    IF httpGet(reply) # NoErr
    THEN GeoReturn(Nil, Errorf(ErrRequest, httpGet(reply).text))
    ELSE IF ReadAll(reply) # NoErr
    THEN GeoReturn(Nil, Errorf(ErrRead, ReadAll(reply).text))
    ELSE LET geocodeResp == UnmarshalGeocode(reply) IN
        IF geocodeResp.err # NoErr
        THEN GeoReturn(Nil, Errorf(ErrJSON, geocodeResp.err.text))
        ELSE IF Len(geocodeResp.Features) = 0
        THEN GeoReturn(NewLocation([PlaceName |-> "", Center |-> <<0, 0>>]), NoErr)
        ELSE Resolve(geocodeResp.Features)

geocodeAddress(reply) ==
    IF httpGet(reply) # NoErr
    THEN GeoReturn(Nil, Errorf(ErrRequest, httpGet(reply).text))
    ELSE IF ReadAll(reply) # NoErr
    THEN GeoReturn(Nil, Errorf(ErrRead, ReadAll(reply).text))
    ELSE LET geocodeResp == UnmarshalGeocode(reply) IN
        IF geocodeResp.err # NoErr
        THEN GeoReturn(Nil, Errorf(ErrJSON, geocodeResp.err.text))
        ELSE IF Len(geocodeResp.Features) = 0
        THEN GeoReturn(Nil, Errorf(ErrAddressNotFound, NoCause))
        ELSE Resolve(geocodeResp.Features)

(***************************************************************************)
(* The geocoding replies the model draws from.                             *)
(***************************************************************************)
Coords == {10, 50, 181}
PlaceNames == {"Kyiv, Ukraine", "Lviv"}

\* Two entries of each type with different texts, among them an id whose
\* type has a further level, and two entries of no type: another type, and
\* an id shorter than the type name it begins.
ContextEntries ==
    {[ID |-> "country.804", Text |-> "A"],
     [ID |-> "country.1", Text |-> "B"],
     [ID |-> "region.1", Text |-> "A"],
     [ID |-> "region.postal_region", Text |-> "B"],
     [ID |-> "place.7", Text |-> "A"],
     [ID |-> "place.9", Text |-> "B"],
     [ID |-> "postcode.2", Text |-> "A"],
     [ID |-> "reg", Text |-> "B"]}

Features ==
    [PlaceName : PlaceNames,
     Center : SeqUpTo(Coords, MaxCenter),
     Context : SeqUpTo(ContextEntries, MaxContext)]

\* The lower-ranked candidates of a reply.
LowerFeatures ==
    {[PlaceName |-> "Odesa", Center |-> <<30, 46>>,
      Context |-> <<[ID |-> "country.804", Text |-> "C"],
                    [ID |-> "region.9", Text |-> "C"],
                    [ID |-> "place.9", Text |-> "C"]>>],
     [PlaceName |-> "Nowhere", Center |-> <<>>, Context |-> <<>>]}

FeatureLists ==
    {<<>>} \cup
    {<<f>> \o rest : f \in Features, rest \in SeqUpTo(LowerFeatures, MaxFeatures - 1)}

FailedReplies ==
    [stage : {"get"}, cause : TransportCauses] \cup
    [stage : {"read"}, cause : ReadCauses] \cup
    {[stage |-> "body", valid |-> FALSE]}

GeoReplies ==
    FailedReplies \cup [stage : {"body"}, valid : {TRUE}, features : FeatureLists]

GeoInit ==
    /\ geoReply \in GeoReplies
    /\ geoPc = "call"
    /\ geoOut = GeoReturn(Nil, NoErr)

\* One call of geocodeAddress against the provider's reply.
GeoCall ==
    /\ geoPc = "call"
    /\ geoOut' = geocodeAddress(geoReply)
    /\ geoPc' = "returned"
    /\ UNCHANGED <<geoReply, routeVars, mainVars>>

(***************************************************************************)
(* getDistance                                                             *)
(***************************************************************************)
\* The decoder's error dropped, as loadToken drops it.
UnmarshalDirections_ErrDropped(reply) ==
    [err |-> NoErr, Routes |-> IF reply.valid THEN reply.routes ELSE <<>>]

\* json.Unmarshal into a DirectionsResponse.
UnmarshalDirections(reply) ==
    IF reply.valid
    THEN [err |-> NoErr, Routes |-> reply.routes]
    ELSE [err |-> Cause(SyntaxCause), Routes |-> <<>>]

NoRequest == <<>>
\* The coordinates of the request path: "lon,lat;lon,lat", each number
\* printed with %.6f (whole degrees print exactly).
Coordinates(start, end) ==
    <<[lon |-> start.Longitude, lat |-> start.Latitude],
      [lon |-> end.Longitude, lat |-> end.Latitude]>>

\* The last route instead of the first.
ChosenRoute_Last(routes) == routes[Len(routes)]

\* The route the result is read from.
ChosenRoute(routes) == routes[1]

RouteReturn(distance, duration, err, request) ==
    [outcome |-> "return", distance |-> distance, duration |-> duration,
     err |-> err, request |-> request]
RoutePanic ==
    [outcome |-> "panic", distance |-> 0, duration |-> 0, err |-> NoErr,
     request |-> NoRequest]

getDistance(start, end, reply) ==
    \* start.Longitude ... end.Latitude dereference the two pointers
    IF start.isNil \/ end.isNil
    THEN RoutePanic
    ELSE LET request == Coordinates(start, end) IN
        IF httpGet(reply) # NoErr
        THEN RouteReturn(0, 0, Errorf(ErrRequest, httpGet(reply).text), request)
        ELSE IF ReadAll(reply) # NoErr
        THEN RouteReturn(0, 0, Errorf(ErrRead, ReadAll(reply).text), request)
        ELSE LET directionsResp == UnmarshalDirections(reply) IN
            IF directionsResp.err # NoErr
            THEN RouteReturn(0, 0, Errorf(ErrJSON, directionsResp.err.text), request)
            ELSE IF Len(directionsResp.Routes) = 0
            THEN RouteReturn(0, 0, Errorf(ErrRouteNotFound, NoCause), request)
            ELSE RouteReturn(ChosenRoute(directionsResp.Routes).Distance,
                             ChosenRoute(directionsResp.Routes).Duration,
                             NoErr, request)

(***************************************************************************)
(* The directions replies and the resolved points the model draws from.    *)
(***************************************************************************)
Distances == {0, 1500, 540000}
Durations == {0, 90, 21600}
Routes == [Distance : Distances, Duration : Durations]

RouteReplies ==
    FailedReplies \cup
    [stage : {"body"}, valid : {TRUE}, routes : SeqUpTo(Routes, MaxRoutes)]

Kyiv == [PlaceName |-> "Kyiv, Ukraine", Center |-> <<30, 50>>,
         Context |-> <<[ID |-> "country.804", Text |-> "Ukraine"],
                       [ID |-> "place.7", Text |-> "Kyiv"]>>]
Lviv == [PlaceName |-> "Lviv", Center |-> <<24, 49>>, Context |-> <<>>]

ResolvedPoints ==
    {geocodeAddress([stage |-> "body", valid |-> TRUE, features |-> <<f>>]).location :
        f \in {Kyiv, Lviv}}

RouteInit ==
    /\ routeStart \in ResolvedPoints
    /\ routeEnd \in ResolvedPoints
    /\ routeReply \in RouteReplies
    /\ routePc = "call"
    /\ routeOut = RouteReturn(0, 0, NoErr, NoRequest)

\* One call of getDistance against the provider's reply.
RouteCall ==
    /\ routePc = "call"
    /\ routeOut' = getDistance(routeStart, routeEnd, routeReply)
    /\ routePc' = "returned"
    /\ UNCHANGED <<routeStart, routeEnd, routeReply, geoVars, mainVars>>

(***************************************************************************)
(* main.  An activation of main is a record of its locals and of the line  *)
(* it stands at; an activation below the top of the stack stands at the    *)
(* line after its call of main.  The two lines read from the terminal do   *)
(* not influence the replies and are left out.                             *)
(***************************************************************************)
Running == "running"
PanicIndex == "panic: index out of range"
PanicNil == "panic: nil pointer dereference"
StackOverflow == "fatal error: stack overflow"
Exited == "exited"

\* main entered: nothing resolved yet, about to geocode the first address.
NewActivation ==
    [pc |-> "L179", location1 |-> Nil, location2 |-> Nil, err |-> NoErr,
     distance |-> 0, duration |-> 0, request |-> NoRequest]

Top == stack[Len(stack)]
SetTop(s, frame) == [s EXCEPT ![Len(s)] = frame]

\* A call of main(): a new activation on the goroutine stack, or the
\* fatal error when the stack cannot grow any more.
CallMain(s) ==
    IF Len(s) < MaxDepth
    THEN [stack |-> Append(s, NewActivation), status |-> Running]
    ELSE [stack |-> s, status |-> StackOverflow]

\* The pass ends with a return to its caller instead of main() again.
Finish_Return(s) ==
    IF Len(s) > 1
    THEN [stack |-> SubSeq(s, 1, Len(s) - 1), status |-> Running]
    ELSE [stack |-> <<>>, status |-> Exited]

\* Lines 202-203: the success banner, then main() again.
Finish(s) == CallMain(s)

\* The replies the driver's calls draw from.
DriverGeoReplies ==
    {[stage |-> "get", cause |-> "timeout"],
     [stage |-> "body", valid |-> FALSE],
     [stage |-> "body", valid |-> TRUE, features |-> <<>>],
     [stage |-> "body", valid |-> TRUE, features |-> <<Kyiv>>],
     [stage |-> "body", valid |-> TRUE, features |-> <<Lviv, Kyiv>>],
     [stage |-> "body", valid |-> TRUE,
      features |-> <<[PlaceName |-> "Nowhere", Center |-> <<>>, Context |-> <<>>]>>]}

DriverRouteReplies ==
    {[stage |-> "get", cause |-> "timeout"],
     [stage |-> "body", valid |-> TRUE, routes |-> <<>>],
     [stage |-> "body", valid |-> TRUE,
      routes |-> <<[Distance |-> 540000, Duration |-> 21600]>>]}

MainInit ==
    /\ stack = <<NewActivation>>
    /\ status = Running

\* The state after a step that leaves the top activation as `frame` and,
\* when `restart`, goes on to call main().
AfterStep(frame, restart) ==
    IF restart
    THEN CallMain(SetTop(stack, frame))
    ELSE [stack |-> SetTop(stack, frame), status |-> Running]

\* Lines 178-183: geocode the first address; on an error report it and
\* call main().
GeocodeFirst ==
    /\ status = Running
    /\ Top.pc = "L179"
    /\ \E reply \in DriverGeoReplies :
        LET r == geocodeAddress(reply) IN
        IF r.outcome = "panic"
        THEN /\ status' = PanicIndex
             /\ UNCHANGED stack
        ELSE LET after == AfterStep([Top EXCEPT !.location1 = r.location,
                                                !.err = r.err,
                                                !.pc = "L184"],
                                    r.err # NoErr) IN
             /\ stack' = after.stack
             /\ status' = after.status
    /\ UNCHANGED <<geoVars, routeVars>>

\* Line 184: printLocation("Точка 1", location1) reads location1's fields.
PrintFirst ==
    /\ status = Running
    /\ Top.pc = "L184"
    /\ IF Top.location1.isNil
       THEN /\ status' = PanicNil
            /\ UNCHANGED stack
       ELSE /\ stack' = SetTop(stack, [Top EXCEPT !.pc = "L187"])
            /\ UNCHANGED status
    /\ UNCHANGED <<geoVars, routeVars>>

\* Lines 186-191: geocode the second address; on an error report it and
\* call main().
GeocodeSecond ==
    /\ status = Running
    /\ Top.pc = "L187"
    /\ \E reply \in DriverGeoReplies :
        LET r == geocodeAddress(reply) IN
        IF r.outcome = "panic"
        THEN /\ status' = PanicIndex
             /\ UNCHANGED stack
        ELSE LET after == AfterStep([Top EXCEPT !.location2 = r.location,
                                                !.err = r.err,
                                                !.pc = "L192"],
                                    r.err # NoErr) IN
             /\ stack' = after.stack
             /\ status' = after.status
    /\ UNCHANGED <<geoVars, routeVars>>

\* Line 192: printLocation("Точка 2", location2).
PrintSecond ==
    /\ status = Running
    /\ Top.pc = "L192"
    /\ IF Top.location2.isNil
       THEN /\ status' = PanicNil
            /\ UNCHANGED stack
       ELSE /\ stack' = SetTop(stack, [Top EXCEPT !.pc = "L195"])
            /\ UNCHANGED status
    /\ UNCHANGED <<geoVars, routeVars>>

\* Lines 194-199: the route between the two locations; on an error report
\* it and call main().
ComputeRoute ==
    /\ status = Running
    /\ Top.pc = "L195"
    /\ \E reply \in DriverRouteReplies :
        LET r == getDistance(Top.location1, Top.location2, reply) IN
        IF r.outcome = "panic"
        THEN /\ status' = PanicNil
             /\ UNCHANGED stack
        ELSE LET after == AfterStep([Top EXCEPT !.distance = r.distance,
                                                !.duration = r.duration,
                                                !.err = r.err,
                                                !.request = r.request,
                                                !.pc = "L200"],
                                    r.err # NoErr) IN
             /\ stack' = after.stack
             /\ status' = after.status
    /\ UNCHANGED <<geoVars, routeVars>>

\* Lines 200-203: printDistance, the success banner, and main() again.
Report ==
    /\ status = Running
    /\ Top.pc = "L200"
    /\ LET after == Finish(SetTop(stack, [Top EXCEPT !.pc = "L204"])) IN
        /\ stack' = after.stack
        /\ status' = after.status
    /\ UNCHANGED <<geoVars, routeVars>>

(***************************************************************************)
(* The specifications.                                                     *)
(***************************************************************************)
\* The values the variables of a call not under test keep.
GeoIdle ==
    /\ geoReply = [stage |-> "body", valid |-> FALSE]
    /\ geoPc = "idle"
    /\ geoOut = GeoReturn(Nil, NoErr)

RouteIdle ==
    /\ routeStart = Nil
    /\ routeEnd = Nil
    /\ routeReply = [stage |-> "body", valid |-> FALSE]
    /\ routePc = "idle"
    /\ routeOut = RouteReturn(0, 0, NoErr, NoRequest)

MainIdle ==
    /\ stack = <<>>
    /\ status = "idle"

\* The driver, every call answered by some reply of the provider.
Init == GeoIdle /\ RouteIdle /\ MainInit

Next ==
    \/ GeocodeFirst
    \/ PrintFirst
    \/ GeocodeSecond
    \/ PrintSecond
    \/ ComputeRoute
    \/ Report

Spec == Init /\ [][Next]_vars

\* geocodeAddress alone, over every reply of GeoReplies.
GeoSpecInit == GeoInit /\ RouteIdle /\ MainIdle

GeoNext == GeoCall

GeoSpec == GeoSpecInit /\ [][GeoNext]_vars

\* getDistance alone, over every pair of resolved points and every reply
\* of RouteReplies.
RouteSpecInit == RouteInit /\ GeoIdle /\ MainIdle

RouteNext == RouteCall

RouteSpec == RouteSpecInit /\ [][RouteNext]_vars

(***************************************************************************)
(* Properties of geocodeAddress, checked under GeoSpec.                    *)
(***************************************************************************)
\* The reply under test decoded (transport and decoding succeeded).
GeoDecoded == geoReply.stage = "body" /\ geoReply.valid
\* geocodeAddress returned a location and no error.
GeoSucceeded ==
    geoPc = "returned" /\ geoOut.outcome = "return" /\ geoOut.err = NoErr
\* id starts with the type name.
StartsWith(id, type) == \E k \in 0..Len(id) : SubSeq(id, 1, k) = type
\* The positions of the entries of context whose id starts with type.
Matches(context, type) == {i \in DOMAIN context : StartsWith(context[i].ID, type)}
Last(S) == CHOOSE i \in S : \A j \in S : j <= i
\* What the field of a type must hold after the scan of context.
Expected(context, type) ==
    IF Matches(context, type) = {} THEN Unknown
    ELSE context[Last(Matches(context, type))].Text
LocationFields ==
    {"isNil", "Latitude", "Longitude", "Country", "Region", "City", "PlaceName"}

\* C1: a reply that decodes to zero features makes the call return the
\* "address not found" error and the nil location, and that error differs
\* from the error returned for every transport, read and decode failure.
C1_EmptyFeaturesNotFound ==
    (geoPc = "returned" /\ GeoDecoded /\ geoReply.features = <<>>) =>
        /\ geoOut.outcome = "return"
        /\ geoOut.location = Nil
        /\ geoOut.err = Errorf(ErrAddressNotFound, NoCause)
        /\ \A failed \in FailedReplies :
            /\ geocodeAddress(failed).err # geoOut.err
            /\ geocodeAddress(failed).err.text # geoOut.err.text

C1_Witness ==
    /\ geoPc = "returned"
    /\ GeoDecoded
    /\ geoReply.features = <<>>
    /\ geoOut.err.text = ErrAddressNotFound

\* C2: every call ends either with a fully populated location and no
\* error, or with an error and the nil location; it ends in no other way.
C2_ResolveAtomic ==
    geoPc = "returned" =>
        \/ /\ geoOut.outcome = "return"
           /\ geoOut.err = NoErr
           /\ DOMAIN geoOut.location = LocationFields
           /\ ~geoOut.location.isNil
        \/ /\ geoOut.outcome = "return"
           /\ geoOut.err # NoErr
           /\ geoOut.location = Nil

\* C3: a returned location has its latitude in [-90, 90] and its longitude
\* in [-180, 180].
C3_CoordinatesInRange ==
    GeoSucceeded =>
        /\ geoOut.location.Latitude \in -90..90
        /\ geoOut.location.Longitude \in -180..180

\* C4: in a returned location each of Country, Region and City holds the
\* text of the last context entry of the first feature whose id starts
\* with "country", "region" and "place" respectively; entries of another
\* type or of no type leave the field as it was, so a field no entry
\* matches keeps its default.
C4_LastMatchWins ==
    GeoSucceeded =>
        LET context == geoReply.features[1].Context IN
        /\ geoOut.location.Country = Expected(context, "country")
        /\ geoOut.location.Region = Expected(context, "region")
        /\ geoOut.location.City = Expected(context, "place")

C4_Witness ==
    /\ GeoSucceeded
    /\ LET context == geoReply.features[1].Context IN
        /\ Len(context) = 2
        /\ context[1].ID = "region.1"
        /\ context[2].ID = "region.postal_region"
        /\ context[1].Text # context[2].Text
        /\ geoOut.location.Region = context[2].Text

\* C5: for every first feature and each type with no matching context
\* entry, the call succeeds, the field of that type is the "unknown"
\* sentinel, and latitude, longitude and display name are those of the
\* feature.
C5_MissingContextSentinel ==
    (geoPc = "returned" /\ GeoDecoded /\ Len(geoReply.features) > 0) =>
        LET feature == geoReply.features[1] IN
        (\E type \in {"country", "region", "place"} :
            Matches(feature.Context, type) = {}) =>
            /\ GeoSucceeded
            /\ Matches(feature.Context, "country") = {} =>
                geoOut.location.Country = Unknown
            /\ Matches(feature.Context, "region") = {} =>
                geoOut.location.Region = Unknown
            /\ Matches(feature.Context, "place") = {} =>
                geoOut.location.City = Unknown
            /\ geoOut.location.Longitude = feature.Center[1]
            /\ geoOut.location.Latitude = feature.Center[2]
            /\ geoOut.location.PlaceName = feature.PlaceName

\* C6: for a reply with one or more features the returned location has
\* the first feature's center[0] as longitude, its center[1] as latitude
\* and its place_name as display name, and the call ends exactly as it
\* does for the reply cut down to its first feature.
C6_FirstFeatureLonLat ==
    (geoPc = "returned" /\ GeoDecoded /\ Len(geoReply.features) > 0) =>
        LET feature == geoReply.features[1] IN
        /\ geoOut = geocodeAddress([geoReply EXCEPT !.features = <<feature>>])
        /\ geoOut.outcome = "return" =>
            /\ geoOut.err = NoErr
            /\ geoOut.location.Longitude = feature.Center[1]
            /\ geoOut.location.Latitude = feature.Center[2]
            /\ geoOut.location.PlaceName = feature.PlaceName

C6_Witness ==
    /\ GeoSucceeded
    /\ Len(geoReply.features) = 2
    /\ geoReply.features[1].Center = <<10, 50>>
    /\ geoReply.features[2].Center = <<30, 46>>
    /\ geoOut.location.Longitude = 10
    /\ geoOut.location.Latitude = 50
    /\ geoOut.location.PlaceName = "Kyiv, Ukraine"

(***************************************************************************)
(* Properties of getDistance, checked under RouteSpec.                     *)
(***************************************************************************)
RouteDecoded == routeReply.stage = "body" /\ routeReply.valid

\* C7: for a reply with one or more routes the result is the distance and
\* the duration of the first route, unchanged, and the request was sent
\* for the two points, also when the two points are the same.
C7_FirstRoutePassedThrough ==
    (routePc = "returned" /\ RouteDecoded /\ Len(routeReply.routes) > 0) =>
        /\ routeOut.outcome = "return"
        /\ routeOut.err = NoErr
        /\ routeOut.distance = routeReply.routes[1].Distance
        /\ routeOut.duration = routeReply.routes[1].Duration
        /\ routeOut.request = Coordinates(routeStart, routeEnd)
        /\ routeOut.request # NoRequest

C7_Witness ==
    /\ routePc = "returned"
    /\ routeStart = routeEnd
    /\ RouteDecoded
    /\ routeReply.routes =
        <<[Distance |-> 0, Duration |-> 0], [Distance |-> 1500, Duration |-> 90]>>
    /\ routeOut.distance = 0
    /\ routeOut.duration = 0
    /\ routeOut.request # NoRequest

\* C8: a reply that decodes to zero routes makes the call return the
\* "route not found" error with distance and duration 0; a transport
\* failure returns the request error, a read failure the read error and a
\* body that does not decode the parse error, so "route not found" is
\* returned for a decoded reply with zero routes and for nothing else.
C8_EmptyRoutesNotFound ==
    routePc = "returned" =>
        /\ routeOut.outcome = "return"
        /\ routeReply.stage = "get" => routeOut.err.text = ErrRequest
        /\ routeReply.stage = "read" => routeOut.err.text = ErrRead
        /\ (routeReply.stage = "body" /\ ~routeReply.valid) =>
            routeOut.err.text = ErrJSON
        /\ (RouteDecoded /\ routeReply.routes = <<>>) =>
            /\ routeOut.err = Errorf(ErrRouteNotFound, NoCause)
            /\ routeOut.distance = 0
            /\ routeOut.duration = 0
        /\ routeOut.err = Errorf(ErrRouteNotFound, NoCause) =>
            (RouteDecoded /\ routeReply.routes = <<>>)

C8_Witness ==
    /\ routePc = "returned"
    /\ RouteDecoded
    /\ routeReply.routes = <<>>
    /\ routeOut.err.text = ErrRouteNotFound

(***************************************************************************)
(* Properties of main, checked under Spec.                                 *)
(***************************************************************************)
\* C9: main restarts itself a bounded number of times and then returns; in
\* particular a pass whose three calls succeeded prints its report and
\* ends instead of calling main() again: no activation waits at line 204
\* for a nested main() to return.
C9_NoSelfRestart ==
    \A i \in DOMAIN stack : stack[i].pc # "L204"

\* C10: printLocation and getDistance are reached only with locations
\* that were resolved without error by the same pass, a directions
\* request is sent only for two such locations, and printDistance is
\* reached only after the route call of the pass returned no error.
C10_StrictDependency ==
    /\ status # PanicNil
    /\ \A i \in DOMAIN stack :
        stack[i].request # NoRequest =>
            /\ ~stack[i].location1.isNil
            /\ ~stack[i].location2.isNil
            /\ stack[i].request = Coordinates(stack[i].location1, stack[i].location2)
    /\ status = Running =>
        /\ Top.pc \in {"L184", "L187", "L192", "L195", "L200"} =>
            ~Top.location1.isNil
        /\ Top.pc \in {"L192", "L195", "L200"} => ~Top.location2.isNil
        /\ Top.pc \in {"L184", "L192", "L200"} => Top.err = NoErr
        /\ Top.pc = "L200" => Top.request # NoRequest

C10_Witness ==
    /\ status = Running
    /\ Len(stack) = 3
    /\ stack[1].pc = "L184" /\ stack[1].location1.isNil
    /\ stack[2].pc = "L200" /\ stack[2].err.text = ErrRouteNotFound
    /\ Top.pc = "L200"
    /\ Top.request = Coordinates(Top.location1, Top.location2)

====
